---- MODULE Spec2Model ----
(***************************************************************************)
(* Model of screener_recentIPOs.py: the IPOScraper pipeline               *)
(* (construct, fetch first page, page loop, row extraction, dedup,        *)
(* persist the spreadsheet and the processed-IPO file).                   *)
(*                                                                         *)
(* Text is modelled as a sequence of characters, a character being a      *)
(* one-element TLA+ string, so that split, strip, replace, int() and the  *)
(* f-string concatenations are computed and not assumed.                  *)
(***************************************************************************)
EXTENDS Integers, Sequences, FiniteSets, TLC

\* ---------------------------------------------------------------- bounds
MaxRuns == 2
MaxPages == 2
MaxRows == 2
MaxLinks == 3

\* ------------------------------------------------------ program constants
max_retries == 3
PacingDelay == 2
RowCells == 6

\* ------------------------------------------------------------------ text
Rupee == "INR"
DownGlyph == "dn"
UpGlyph == "up"
Space == " "

Digits == <<"0", "1", "2", "3", "4", "5", "6", "7", "8", "9">>

IsDigit(c) == \E i \in 1..10 : Digits[i] = c

DigitVal(c) == (CHOOSE i \in 1..10 : Digits[i] = c) - 1

\* True when t occurs in s starting at position i.
OccursAt(s, t, i) ==
    /\ i >= 1
    /\ i + Len(t) - 1 <= Len(s)
    /\ SubSeq(s, i, i + Len(t) - 1) = t

\* Python's  t in s
Contains(s, t) == \E i \in 1..(Len(s) + 1) : OccursAt(s, t, i)

\* Position of the first occurrence of t in s, 0 when there is none.
Find(s, t) ==
    IF Contains(s, t)
    THEN CHOOSE i \in 1..(Len(s) + 1) :
            /\ OccursAt(s, t, i)
            /\ \A j \in 1..(i - 1) : ~OccursAt(s, t, j)
    ELSE 0

\* Python's  s.split(t)[1]  for an s that contains t: the text between the
\* first occurrence of t and the next one (or the end of s).
SplitSecond(s, t) ==
    LET rest == SubSeq(s, Find(s, t) + Len(t), Len(s))
    IN  IF Contains(rest, t) THEN SubSeq(rest, 1, Find(rest, t) - 1) ELSE rest

RECURSIVE LStrip(_)
LStrip(s) == IF s # <<>> /\ Head(s) = Space THEN LStrip(Tail(s)) ELSE s

RECURSIVE RStrip(_)
RStrip(s) ==
    IF s # <<>> /\ s[Len(s)] = Space THEN RStrip(SubSeq(s, 1, Len(s) - 1)) ELSE s

\* Python's  s.strip()
Strip(s) == RStrip(LStrip(s))

\* Python's  s.replace(c, r)  for a single character c and a text r.
RECURSIVE Replace(_, _, _)
Replace(s, c, r) ==
    IF s = <<>> THEN <<>>
    ELSE (IF Head(s) = c THEN r ELSE <<Head(s)>>) \o Replace(Tail(s), c, r)

RECURSIVE Decimal(_)
Decimal(s) ==
    IF s = <<>> THEN 0 ELSE 10 * Decimal(SubSeq(s, 1, Len(s) - 1)) + DigitVal(s[Len(s)])

\* Python's  int(s) : surrounding blanks are dropped, one sign is allowed, and
\* the rest must be a non-empty run of decimal digits; anything else raises
\* ValueError (ok = FALSE). Digit groups joined by '_' are not modelled.
ParseInt(s) ==
    LET t == Strip(s)
        signed == t # <<>> /\ Head(t) \in {"-", "+"}
        d == IF signed THEN Tail(t) ELSE t
    IN  IF d = <<>> \/ \E i \in 1..Len(d) : ~IsDigit(d[i])
        THEN [ok |-> FALSE, val |-> 0]
        ELSE [ok |-> TRUE,
              val |-> IF signed /\ Head(t) = "-" THEN 0 - Decimal(d) ELSE Decimal(d)]

\* ------------------------------------------------------ pagination control
\* soup.find('div', class_='pagination'): present or not, with its <a> links;
\* a link has an href attribute or none.
PageEq == <<"p", "a", "g", "e", "=">>

NoPagination == [present |-> FALSE, links |-> <<>>]

Control(links) == [present |-> TRUE, links |-> links]

Link(href) == [has_href |-> TRUE, href |-> href]

NoHrefLink == [has_href |-> FALSE, href |-> <<>>]

\* link.get('href', '')
HrefOf(link) == IF link.has_href THEN link.href ELSE <<>>

Max2(a, b) == IF a >= b THEN a ELSE b

\* The for loop of _extract_pagination_info, from link i on.
RECURSIVE ScanLinks(_, _, _)
ScanLinks(links, i, max_page) ==
    IF i > Len(links) THEN max_page
    ELSE IF Contains(HrefOf(links[i]), PageEq)
         THEN LET page_num == ParseInt(SplitSecond(links[i].href, PageEq))
              IN  IF page_num.ok
                  THEN ScanLinks(links, i + 1, Max2(max_page, page_num.val))
                  ELSE ScanLinks(links, i + 1, max_page)
         ELSE ScanLinks(links, i + 1, max_page)

\* Variant: max_page starts at 0 instead of 1.
_extract_pagination_info_from0(pagination) ==
    IF ~pagination.present THEN 1 ELSE ScanLinks(pagination.links, 1, 0)

\* IPOScraper._extract_pagination_info
_extract_pagination_info(pagination) ==
    IF ~pagination.present THEN 1 ELSE ScanLinks(pagination.links, 1, 1)

\* The pagination control that links to the pages 1..n.
PageHref(n) == <<"?">> \o PageEq \o <<Digits[n + 1]>>

LinksTo(n) == [i \in 1..n |-> Link(PageHref(i))]

\* ------------------------------------------------------------- table rows
\* A <tr> is its sequence of <td> cells; a cell has its text and, when it
\* holds a link, the link's href.
Cell(text) == [text |-> text, has_a |-> FALSE, href |-> <<>>]

LinkCell(text, href) == [text |-> text, has_a |-> TRUE, href |-> href]

base_url == <<"https://www.screener.in">>

\* The result of _extract_ipo_data: None, an IndexError raised by a missing
\* cell, or the pair (ipo_id, ipo_data).
NoData == [Company |-> <<>>, CompanyLink |-> <<>>, ListingDate |-> <<>>,
           MCap |-> <<>>, IPOPrice |-> <<>>, CurrentPrice |-> <<>>,
           PercentChange |-> <<>>]

ReturnsNone == [kind |-> "None", ipo_id |-> <<>>, ipo_data |-> NoData]

RaisesIndexError == [kind |-> "IndexError", ipo_id |-> <<>>, ipo_data |-> NoData]

\* The f-string  f"{company_name}_{listing date}"
IpoId(company_name, listing_date) == company_name \o <<"_">> \o listing_date

\* IPOScraper._extract_ipo_data; cells[k] of the code is cells[k + 1] here.
_extract_ipo_data(cells) ==
    IF cells = <<>> THEN ReturnsNone
    ELSE IF ~cells[1].has_a THEN ReturnsNone
    ELSE IF Len(cells) < RowCells THEN RaisesIndexError
    ELSE LET company_name == Strip(cells[1].text)
         IN  [kind |-> "pair",
              ipo_id |-> IpoId(company_name, Strip(cells[2].text)),
              ipo_data |->
                 [Company |-> company_name,
                  CompanyLink |-> base_url \o cells[1].href,
                  ListingDate |-> Strip(cells[2].text),
                  MCap |-> Strip(cells[3].text),
                  IPOPrice |-> Strip(Replace(cells[4].text, Rupee, <<>>)),
                  CurrentPrice |-> Strip(Replace(cells[5].text, Rupee, <<>>)),
                  PercentChange |->
                     Replace(Replace(Strip(cells[6].text), DownGlyph, <<"-">>),
                             UpGlyph, <<"+">>)]]

\* ------------------------------------------------------------ spreadsheet
\* A DataFrame cell is a text or NaN; a sheet cell is a text or blank (the
\* empty text). "nan" is a value, not a character of any text.
NaN == <<"nan">>

SheetCell(v) == IF v = NaN THEN <<>> ELSE v

FrameCell(c) == IF c = <<>> THEN NaN ELSE c

\* DataFrame.to_excel(index=False): the rows of the sheet written.
to_excel(df) ==
    [i \in 1..Len(df) |-> [column \in DOMAIN df[i] |-> SheetCell(df[i][column])]]

\* pd.read_excel: blank cells come back as NaN.
read_excel(sheet) ==
    [i \in 1..Len(sheet) |-> [column \in DOMAIN sheet[i] |-> FrameCell(sheet[i][column])]]

\* pd.DataFrame(all_ipo_data): one row per dict, in list order.
DataFrame(data) == data

\* Variant: the new rows are put before the existing ones.
concat_new_first(existing_df, new_df) == new_df \o existing_df

\* pd.concat([existing_df, new_df], ignore_index=True)
concat(existing_df, new_df) == existing_df \o new_df

NoFile == [exists |-> FALSE, rows |-> <<>>]

NoJson == [exists |-> FALSE, ids |-> {}]

\* ------------------------------------------------------------ remote site
\* What a GET of the listing returns once parsed: the pagination control and
\* the data table (absent, or the <tr> rows of its <tbody>).
TailCells ==
    <<Cell(<<>>), Cell(<<Rupee, "1", ",", "5">>), Cell(<<Rupee, "9", ",", "5">>),
      Cell(<<UpGlyph, "8", "%">>)>>

Row(name, date) == <<LinkCell(name, <<"/company/">> \o Strip(name)), Cell(date)>> \o TailCells

RowAC == Row(<<" ", "A">>, <<"C">>)

RowAB_C == Row(<<"A", "_", "B">>, <<"C", " ">>)

RowNoLink == <<Cell(<<"A">>), Cell(<<"C">>)>> \o TailCells

RowShort == <<LinkCell(<<"A">>, <<"/company/A">>), Cell(<<"C">>), Cell(<<>>)>>

RowNoCells == <<>>

ValidRows == {RowAC, RowAB_C}

Rows == ValidRows \cup {RowNoLink, RowShort, RowNoCells}

SeqsUpTo(S, n) == UNION {[1..k -> S] : k \in 0..n}

NoTable == [present |-> FALSE, rows |-> <<>>]

Table(rs) == [present |-> TRUE, rows |-> rs]

Tables == {NoTable} \cup {Table(rs) : rs \in SeqsUpTo(Rows, MaxRows)}

PaginationFor(n) == IF n <= 1 THEN NoPagination ELSE Control(LinksTo(n))

Paginations == {NoPagination} \cup {Control(LinksTo(n)) : n \in 0..MaxPages}

\* A site that changes freely between and during runs.
AnySite == [fixed |-> FALSE, pages |-> <<>>]

\* A site that stays as it is: its pages, all with a data table of valid rows.
FixedSites ==
    {[fixed |-> TRUE, pages |-> ps] :
        ps \in SeqsUpTo({Table(rs) : rs \in SeqsUpTo(ValidRows, MaxRows)}, MaxPages) \ {<<>>}}

\* The pagination controls _extract_pagination_info is applied to in SpecPage:
\* up to MaxLinks links drawn from Hrefs.
Hrefs ==
    {NoHrefLink,
     Link(<<"/", "i", "p", "o", "/">>),
     Link(PageHref(1)),
     Link(PageHref(3)),
     Link(PageHref(5)),
     Link(<<"?">> \o PageEq \o <<"1", "2">>),
     Link(<<"?">> \o PageEq \o <<"0">>),
     Link(<<"?">> \o PageEq \o <<"-", "4">>),
     Link(<<"?">> \o PageEq),
     Link(<<"?">> \o PageEq \o <<"7", "&", "s", "=", "1">>),
     Link(<<"?">> \o PageEq \o <<"2", "&">> \o PageEq \o <<"9">>)}

PaginationInputs == {NoPagination} \cup {Control(ls) : ls \in SeqsUpTo(Hrefs, MaxLinks)}

\* ------------------------------------------------------------------ state
VARIABLES
    site,            \* the remote data set: AnySite, or a member of FixedSites
    outFile,         \* ipo_data.xlsx
    dedupFile,       \* processed_ipos.json
    processed_ipos,  \* self.processed_ipos
    all_ipo_data,    \* all_ipo_data of scrape_ipo_data
    pc,              \* position of the process; "off" when none runs
    pagination,      \* the pagination control of the soup last parsed for it
    total_pages,     \* total_pages of scrape_ipo_data
    page,            \* page of the for loop
    rows,            \* rows of the current table still to be processed
    attempts,        \* requests.get calls made by the current _make_request
    slept,           \* backoff delays slept by the current _make_request
    outcome,         \* how the current _make_request ended
    fetches,         \* _make_request calls issued by scrape_ipo_data this run
    pause,           \* pacing delay slept since the last _make_request ended
    row_no,          \* rows of the current table already processed
    origins,         \* page and row number each row of all_ipo_data came from
    result,          \* how the last run ended
    runs,            \* process invocations so far
    outFile0,        \* ipo_data.xlsx as it was when the run began
    dedupFile0       \* processed_ipos.json as it was when the run began

vars ==
    <<site, outFile, dedupFile, processed_ipos, all_ipo_data, pc, pagination,
      total_pages, page, rows, attempts, slept, outcome, fetches, pause,
      row_no, origins, result, runs, outFile0, dedupFile0>>

files == <<outFile, dedupFile>>

history == <<outFile0, dedupFile0>>

InitLocals ==
    /\ processed_ipos = {}
    /\ all_ipo_data = <<>>
    /\ total_pages = 0
    /\ page = 0
    /\ rows = <<>>
    /\ attempts = 0
    /\ slept = <<>>
    /\ outcome = "none"
    /\ fetches = 0
    /\ pause = 0
    /\ row_no = 0
    /\ origins = <<>>
    /\ result = "none"
    /\ runs = 0

Init ==
    /\ site = AnySite
    /\ outFile = NoFile
    /\ dedupFile = NoJson
    /\ outFile0 = NoFile
    /\ dedupFile0 = NoJson
    /\ pc = "off"
    /\ pagination = NoPagination
    /\ InitLocals

\* ------------------------------------------------------------- operations
\* What soup.find('div', class_='pagination') can give on the first page.
ServedPaginations ==
    IF site.fixed THEN {PaginationFor(Len(site.pages))} ELSE Paginations

\* What soup.find('table', class_='data-table') can give on page p.
ServedTables(p) ==
    IF site.fixed
    THEN {IF p <= Len(site.pages) THEN site.pages[p] ELSE Table(<<>>)}
    ELSE Tables

\* IPOScraper._load_processed_ipos, called on a self that has the attributes
\* self_attrs: reading a missing self.processed_file raises AttributeError
\* inside the try, which the except clause turns into the empty set.
_load_processed_ipos(self_attrs) ==
    IF "processed_file" \notin self_attrs THEN {}
    ELSE IF dedupFile.exists THEN dedupFile.ids
    ELSE {}

\* The attributes of Python's time module that the program names.
time_module == {"sleep"}

\* delay = (2 ** attempt) + (time.random() * 0.1), then time.sleep(delay):
\* the attribute lookup raises AttributeError when the module has no
\* 'random'; the jitter, below 0.1, is left out of the delay.
Backoff(attempt) ==
    IF "random" \in time_module
    THEN [raised |-> FALSE, delay |-> 2 ^ attempt]
    ELSE [raised |-> TRUE, delay |-> 0]

\* Variant: the files are written whether or not a row was accumulated.
HasNewIPOs_always(data) == TRUE

\* if all_ipo_data:
HasNewIPOs(data) == data # <<>>

\* IPOScraper.__init__ : a new process starts.
__init__ ==
    /\ pc = "off"
    /\ runs < MaxRuns
    /\ processed_ipos' = _load_processed_ipos({"base_url", "headers"})
    /\ pc' = "constructed"
    /\ runs' = runs + 1
    /\ outFile0' = outFile
    /\ dedupFile0' = dedupFile
    /\ all_ipo_data' = <<>>
    /\ pagination' = NoPagination
    /\ total_pages' = 0
    /\ page' = 0
    /\ rows' = <<>>
    /\ attempts' = 0
    /\ slept' = <<>>
    /\ outcome' = "none"
    /\ fetches' = 0
    /\ pause' = 0
    /\ row_no' = 0
    /\ origins' = <<>>
    /\ result' = "running"
    /\ UNCHANGED <<site, files>>

\* scrape_ipo_data up to its first _make_request(url).
scrape_ipo_data ==
    /\ pc = "constructed"
    /\ all_ipo_data' = <<>>
    /\ pc' = "req_first"
    /\ attempts' = 0
    /\ slept' = <<>>
    /\ outcome' = "pending"
    /\ fetches' = fetches + 1
    /\ UNCHANGED <<site, files, history, processed_ipos, pagination, total_pages,
                   page, rows, pause, row_no, origins, result, runs>>

\* _make_request: requests.get or raise_for_status raises RequestException.
\* Then either the backoff is slept and the loop goes on, or its evaluation
\* raises and the exception leaves scrape_ipo_data, or (last attempt) the
\* loop ends, None is returned and the caller returns (first page) or
\* continues with the next page.
_make_request_fails ==
    /\ pc \in {"req_first", "req_page"}
    /\ attempts < max_retries
    /\ attempts' = attempts + 1
    /\ IF attempts < max_retries - 1
       THEN IF Backoff(attempts).raised
            THEN /\ outcome' = "AttributeError"
                 /\ result' = "AttributeError"
                 /\ pc' = "off"
                 /\ pause' = 0
                 /\ UNCHANGED <<slept, page>>
            ELSE /\ slept' = Append(slept, Backoff(attempts).delay)
                 /\ UNCHANGED <<outcome, result, pc, page, pause>>
       ELSE /\ outcome' = "None"
            /\ pause' = 0
            /\ slept' = slept
            /\ IF pc = "req_first"
               THEN /\ result' = "abort"
                    /\ pc' = "off"
                    /\ page' = page
               ELSE /\ page' = page + 1
                    /\ pc' = "loop"
                    /\ result' = result
    /\ UNCHANGED <<site, files, history, processed_ipos, all_ipo_data, pagination,
                   total_pages, rows, fetches, row_no, origins, runs>>

\* _make_request returns the response of the first page; the page count is
\* read from it.
FirstPageFetched ==
    /\ pc = "req_first"
    /\ attempts < max_retries
    /\ \E control \in ServedPaginations :
          /\ pagination' = control
          /\ total_pages' = _extract_pagination_info(control)
    /\ attempts' = attempts + 1
    /\ outcome' = "response"
    /\ pause' = 0
    /\ page' = 1
    /\ pc' = "loop"
    /\ UNCHANGED <<site, files, history, processed_ipos, all_ipo_data, rows, slept,
                   fetches, row_no, origins, result, runs>>

\* for page in range(1, total_pages + 1): _make_request(page_url)
NextPage ==
    /\ pc = "loop"
    /\ page <= total_pages
    /\ pc' = "req_page"
    /\ attempts' = 0
    /\ slept' = <<>>
    /\ outcome' = "pending"
    /\ fetches' = fetches + 1
    /\ UNCHANGED <<site, files, history, processed_ipos, all_ipo_data, pagination,
                   total_pages, page, rows, pause, row_no, origins, result, runs>>

\* _make_request returns the response of page `page`; without a data table
\* the loop continues, else its body rows are taken.
PageFetched ==
    /\ pc = "req_page"
    /\ attempts < max_retries
    /\ attempts' = attempts + 1
    /\ outcome' = "response"
    /\ pause' = 0
    /\ \E table \in ServedTables(page) :
          IF ~table.present
          THEN /\ page' = page + 1
               /\ pc' = "loop"
               /\ rows' = rows
          ELSE /\ rows' = table.rows
               /\ pc' = "rows"
               /\ page' = page
    /\ row_no' = 0
    /\ UNCHANGED <<site, files, history, processed_ipos, all_ipo_data, pagination,
                   total_pages, slept, fetches, origins, result, runs>>

\* One turn of the row loop: ipo_id, ipo_data = self._extract_ipo_data(row),
\* the dedup test, the append. Unpacking None raises TypeError; it and the
\* IndexError of a short row leave scrape_ipo_data.
ProcessRow ==
    /\ pc = "rows"
    /\ rows # <<>>
    /\ LET r == _extract_ipo_data(Head(rows))
       IN  IF r.kind # "pair"
           THEN /\ result' = (IF r.kind = "None" THEN "TypeError" ELSE "IndexError")
                /\ pc' = "off"
                /\ UNCHANGED <<rows, row_no, all_ipo_data, processed_ipos, origins>>
           ELSE /\ rows' = Tail(rows)
                /\ row_no' = row_no + 1
                /\ UNCHANGED <<pc, result>>
                /\ IF r.ipo_id \in processed_ipos
                   THEN UNCHANGED <<all_ipo_data, processed_ipos, origins>>
                   ELSE /\ all_ipo_data' = Append(all_ipo_data, r.ipo_data)
                        /\ origins' = Append(origins, <<page, row_no + 1>>)
                        /\ processed_ipos' = processed_ipos \cup {r.ipo_id}
    /\ UNCHANGED <<site, files, history, pagination, total_pages, page, attempts,
                   slept, outcome, fetches, pause, runs>>

\* The rows of the page are done: time.sleep(2), next page.
PageDone ==
    /\ pc = "rows"
    /\ rows = <<>>
    /\ pause' = pause + PacingDelay
    /\ page' = page + 1
    /\ pc' = "loop"
    /\ UNCHANGED <<site, files, history, processed_ipos, all_ipo_data, pagination,
                   total_pages, rows, attempts, slept, outcome, fetches, row_no,
                   origins, result, runs>>

\* After the loop: with new IPOs the spreadsheet is read (if there), extended
\* and written; without, the run ends.
AllPagesDone ==
    /\ pc = "loop"
    /\ page > total_pages
    /\ IF HasNewIPOs(all_ipo_data)
       THEN /\ outFile' =
                 [exists |-> TRUE,
                  rows |-> to_excel(IF outFile.exists
                                    THEN concat(read_excel(outFile.rows),
                                                DataFrame(all_ipo_data))
                                    ELSE DataFrame(all_ipo_data))]
            /\ pc' = "save"
            /\ result' = result
       ELSE /\ outFile' = outFile
            /\ pc' = "off"
            /\ result' = "no_changes"
    /\ UNCHANGED <<site, dedupFile, history, processed_ipos, all_ipo_data, pagination,
                   total_pages, page, rows, attempts, slept, outcome, fetches,
                   pause, row_no, origins, runs>>

\* IPOScraper._save_processed_ipos: json.dump(list(self.processed_ipos)); the
\* run ends.
_save_processed_ipos ==
    /\ pc = "save"
    /\ dedupFile' = [exists |-> TRUE, ids |-> processed_ipos]
    /\ pc' = "off"
    /\ result' = "done"
    /\ UNCHANGED <<site, outFile, history, processed_ipos, all_ipo_data, pagination,
                   total_pages, page, rows, attempts, slept, outcome, fetches,
                   pause, row_no, origins, runs>>

Next ==
    \/ __init__
    \/ scrape_ipo_data
    \/ _make_request_fails
    \/ FirstPageFetched
    \/ NextPage
    \/ PageFetched
    \/ ProcessRow
    \/ PageDone
    \/ AllPagesDone
    \/ _save_processed_ipos

Spec == Init /\ [][Next]_vars

\* ---------------------------------------------- an unchanging, valid site
InitFixed ==
    /\ site \in FixedSites
    /\ outFile = NoFile
    /\ dedupFile = NoJson
    /\ outFile0 = NoFile
    /\ dedupFile0 = NoJson
    /\ pc = "off"
    /\ pagination = NoPagination
    /\ InitLocals

NextFixed ==
    \/ __init__
    \/ scrape_ipo_data
    \/ FirstPageFetched
    \/ NextPage
    \/ PageFetched
    \/ ProcessRow
    \/ PageDone
    \/ AllPagesDone
    \/ _save_processed_ipos

SpecFixed == InitFixed /\ [][NextFixed]_vars

\* ------------------------------------------------- the page count alone
InitPage ==
    /\ site = AnySite
    /\ outFile = NoFile
    /\ dedupFile = NoJson
    /\ outFile0 = NoFile
    /\ dedupFile0 = NoJson
    /\ pc = "parse"
    /\ InitLocals
    /\ pagination \in PaginationInputs

\* total_pages = self._extract_pagination_info(soup)
ExtractPageCount ==
    /\ pc = "parse"
    /\ total_pages' = _extract_pagination_info(pagination)
    /\ pc' = "parsed"
    /\ UNCHANGED <<site, files, history, processed_ipos, all_ipo_data, pagination,
                   page, rows, attempts, slept, outcome, fetches, pause, row_no, origins,
                   result, runs>>

SpecPage == InitPage /\ [][ExtractPageCount]_vars

\* ----------------------------------------------------------------- claims
IsPrefix(a, b) == Len(a) <= Len(b) /\ SubSeq(b, 1, Len(a)) = a

\* The identifier of a row of the spreadsheet.
SheetRowId(r) == IpoId(r.Company, r.ListingDate)

RunEnded == pc = "off" /\ runs >= 1

\* C1: with the site unchanged and all its rows valid, a second run in
\* succession accumulates no new row and leaves the output table as the
\* first run left it.
C1_SecondRunAddsNothing ==
    (RunEnded /\ runs >= 2) => (all_ipo_data = <<>> /\ outFile = outFile0)

\* C2: a _make_request whose every attempt fails makes exactly 3 attempts,
\* sleeps about 1 and then 2 between them, nothing after the third, and
\* returns None instead of raising.
C2_ThreeAttemptsThenNone ==
    (outcome \notin {"none", "pending", "response"})
        => (attempts = max_retries /\ slept = <<1, 2>> /\ outcome = "None")

\* C3: when the fetch of a page of the loop fails, the run goes on with the
\* next page and keeps the rows accumulated so far.
C3_FailedPageIsSkipped ==
    [][(pc = "req_page" /\ outcome' \notin {"pending", "response"})
          => (pc' = "loop" /\ page' = page + 1 /\ all_ipo_data' = all_ipo_data)]_vars

\* C4: a row with fewer than 6 cells or without a link in its first cell is
\* skipped silently: nothing is raised, nothing is accumulated or added to
\* the processed set, and the row loop goes on with the next row.
Skippable(cells) == Len(cells) < RowCells \/ ~cells[1].has_a

C4_BadRowIsSkipped ==
    [][(pc = "rows" /\ rows # <<>> /\ Skippable(Head(rows)))
          => (/\ pc' = "rows"
              /\ rows' = Tail(rows)
              /\ all_ipo_data' = all_ipo_data
              /\ processed_ipos' = processed_ipos)]_vars

\* C5: every identifier the deduplication file held when a run began is
\* still in it during and after the run.
C5_DedupFileOnlyGrows == dedupFile0.ids \subseteq dedupFile.ids

\* C6: after every run, each row of the persisted output table has its
\* identifier in the persisted deduplication file.
C6_TableRowsAreInDedupFile ==
    RunEnded => \A i \in 1..Len(outFile.rows) : SheetRowId(outFile.rows[i]) \in dedupFile.ids

C8_PacedBetweenFetches == pc = "req_page" => pause = PacingDelay

\* C9: a run that accumulated no new record (first fetch failed, or no row
\* was new) leaves both files as they were; otherwise the output file is
\* written before the deduplication file.
C9_FilesWrittenOnlyWithNewRecords ==
    /\ all_ipo_data = <<>> => (outFile = outFile0 /\ dedupFile = dedupFile0)
    /\ (RunEnded /\ result # "done") => (outFile = outFile0 /\ dedupFile = dedupFile0)
    /\ pc = "save" => (outFile # outFile0 /\ dedupFile = dedupFile0)
    /\ dedupFile # dedupFile0 => outFile # outFile0

C9_Witness ==
    /\ RunEnded
    /\ result = "no_changes"
    /\ dedupFile.exists
    /\ outFile = outFile0

\* C10: the page count is 1 without a pagination control; with one it is the
\* largest page number among the links whose page parameter parses, and 1
\* when none parses; it is at least 1 and the order of the links and the
\* gaps between their numbers do not matter.
PageNumbers(links) ==
    {ParseInt(SplitSecond(links[i].href, PageEq)).val :
        i \in {k \in 1..Len(links) :
                 /\ Contains(HrefOf(links[k]), PageEq)
                 /\ ParseInt(SplitSecond(links[k].href, PageEq)).ok}}

Reverse(q) == [i \in 1..Len(q) |-> q[Len(q) + 1 - i]]

C10_PageCountIsMaxLink ==
    pc = "parsed" =>
        /\ total_pages >= 1
        /\ ~pagination.present => total_pages = 1
        /\ pagination.present =>
              LET nums == PageNumbers(pagination.links) \cup {1}
              IN  /\ total_pages \in nums
                  /\ \A n \in nums : n <= total_pages
        /\ total_pages = _extract_pagination_info(
                             [pagination EXCEPT !.links = Reverse(pagination.links)])

C10_Witness ==
    /\ pc = "parsed"
    /\ pagination = Control(<<Link(PageHref(5)), Link(PageHref(1)), Link(PageHref(3))>>)
    /\ total_pages = 5

====
